---- MODULE Spec2Model ----
(***************************************************************************)
(* Model of the negotiation chat client: App.jsx (session store and the   *)
(* choice between login page and chat page), LoginPage.jsx (handleSubmit) *)
(* and ChatPage.jsx (init effect, sendMessage, handleKeyDown,             *)
(* startNewChat and the render conditions of the controls).               *)
(*                                                                         *)
(* Every continuation of an async function after an await is one atomic   *)
(* step (JavaScript runs handlers to completion and React batches the     *)
(* state setters of one handler).  The backend is not part of the         *)
(* repository: its answers are chosen nondeterministically.               *)
(***************************************************************************)
EXTENDS Integers, Sequences, FiniteSets, TLC

\* ------------------------------------------------------------------ bounds
MaxSends    == 2   \* sends one controller accepts (each gets a fresh turn id)
MaxRemounts == 1   \* superseded start requests of one controller outstanding
MaxStale    == 1   \* requests outstanding when the user logs out

\* ------------------------------------------------------- JavaScript values
\* An optional value (undefined / null / absent field) is <<>>, a present
\* value v is <<v>>.
Null == <<>>
Some(v) == <<v>>

\* data.chat || []            (an array, even an empty one, is truthy)
OrEmptyArray(opt) == IF opt = Null THEN <<>> ELSE opt[1]
\* data.conversation_ended || false
OrFalse(opt) == IF opt = Null THEN FALSE ELSE opt[1]
\* truthiness of an optional string: undefined and '' are falsy
TruthyStr(opt) == opt # Null /\ opt[1] # ""
\* data.error || dflt
OrStr(opt, dflt) == IF TruthyStr(opt) THEN opt[1] ELSE dflt

\* Texts are sequences of characters; " " is the only whitespace used.
\* The drafts the user types: empty, blank, plain, padded on both sides.
Texts == {<<>>, <<" ">>, <<"a">>, <<" ", "a", " ">>}

RECURSIVE TrimStart(_)
TrimStart(s) == IF s # <<>> /\ Head(s) = " " THEN TrimStart(Tail(s)) ELSE s
RECURSIVE TrimEnd(_)
TrimEnd(s) == IF s # <<>> /\ s[Len(s)] = " "
              THEN TrimEnd(SubSeq(s, 1, Len(s) - 1)) ELSE s
\* String.prototype.trim
Trim(s) == TrimEnd(TrimStart(s))

\* variants of slice(0, -1): slice(0) keeps everything, slice(1) drops the
\* first entry
SliceKeepAll(prev) == prev
SliceDropFirst(prev) == IF Len(prev) = 0 THEN <<>> ELSE Tail(prev)

\* prev.slice(0, -1)
SliceDropLast(prev) == IF Len(prev) = 0 THEN <<>> ELSE SubSeq(prev, 1, Len(prev) - 1)

\* ------------------------------------------------------------------- turns
\* A Turn is { role, content }.  The field id is bookkeeping of the model:
\* 0 for a turn delivered by the backend, the number of the send for a
\* turn appended locally by sendMessage.
Turn(role, content, id) == [role |-> role, content |-> content, id |-> id]
UserTurn(userMsg, id) == Turn("user", userMsg, id)

\* Transcripts the backend may return.
BackendUser == Turn("user", <<"a">>, 0)
BackendAsst == Turn("assistant", <<"a", "a">>, 0)
Snapshots == {<<>>, <<BackendUser, BackendAsst>>}

\* ------------------------------------------------------- backend responses
\* ok = FALSE: the request was rejected or its body could not be parsed.
TransportFailure ==
  [ok |-> FALSE, chat |-> Null, conversation_ended |-> Null, error |-> Null,
   success |-> Null, account |-> Null]

\* start: { chat, conversation_ended }, fields possibly absent
StartResponses ==
  {[ok |-> TRUE, chat |-> ch, conversation_ended |-> e, error |-> Null,
    success |-> Null, account |-> Null] :
     ch \in {Null} \cup {Some(s) : s \in Snapshots},
     e \in {Null, Some(TRUE), Some(FALSE)}}

\* sendMessage: { chat, conversation_ended } or { error }
\* (an error field may be the empty string, and may come with other fields)
SendResponses ==
  {[ok |-> TRUE, chat |-> ch, conversation_ended |-> e, error |-> Null,
    success |-> Null, account |-> Null] :
     ch \in {Null} \cup {Some(s) : s \in Snapshots},
     e \in {Null, Some(TRUE), Some(FALSE)}}
  \cup
  {[ok |-> TRUE, chat |-> Null, conversation_ended |-> Null, error |-> er,
    success |-> Null, account |-> Null] : er \in {Some(""), Some("rate limited")}}
  \cup
  {[ok |-> TRUE, chat |-> Some(<<BackendUser, BackendAsst>>),
    conversation_ended |-> Some(TRUE), error |-> Some("rate limited"),
    success |-> Null, account |-> Null]}

\* startNew: the body is never read, only resolution or rejection matters
Acknowledged ==
  [ok |-> TRUE, chat |-> Null, conversation_ended |-> Null, error |-> Null,
   success |-> Null, account |-> Null]

\* login: { success, session_token, builder_name } or { success: false, error }
Accounts == {[session_token |-> "t1", builder_name |-> "Ann"],
             [session_token |-> "t2", builder_name |-> "Bob"]}
LoginResponses ==
  {[ok |-> TRUE, chat |-> Null, conversation_ended |-> Null, error |-> Null,
    success |-> Some(TRUE), account |-> Some(a)] : a \in Accounts}
  \cup
  {[ok |-> TRUE, chat |-> Null, conversation_ended |-> Null, error |-> er,
    success |-> s, account |-> Null] :
     er \in {Null, Some("Invalid credentials")}, s \in {Null, Some(FALSE)}}

\* ------------------------------------------------------------------- state
VARIABLES
  session,            \* App: useState(null)
  storage,            \* localStorage[SESSION_KEY]
  loginError,         \* LoginPage: error
  loginLoading,       \* LoginPage: loading
  messages,           \* ChatPage: messages
  input,              \* ChatPage: input
  loading,            \* ChatPage: loading
  conversationEnded,  \* ChatPage: conversationEnded
  error,              \* ChatPage: error
  chatReady,          \* ChatPage: chatReady
  calls,              \* requests that have been issued and not yet answered
  sent,               \* number of sends the controller has accepted
  okIds,              \* ids of the sends the backend has accepted
  acked,              \* the chat of the last answer the controller applied
  last                \* the event that produced the current state

ctl == <<messages, input, loading, conversationEnded, error, chatReady>>
vars == <<session, storage, loginError, loginLoading, messages, input, loading,
          conversationEnded, error, chatReady, calls, sent, okIds, acked,
          last>>

\* The controller state as one value.
Ctl == [messages |-> messages, input |-> input, loading |-> loading,
        conversationEnded |-> conversationEnded, error |-> error,
        chatReady |-> chatReady]

\* useState initial values of ChatPage
InitialCtl == [messages |-> <<>>, input |-> <<>>, loading |-> TRUE,
               conversationEnded |-> FALSE, error |-> "", chatReady |-> FALSE]

SetCtl(c) ==
  /\ messages' = c.messages
  /\ input' = c.input
  /\ loading' = c.loading
  /\ conversationEnded' = c.conversationEnded
  /\ error' = c.error
  /\ chatReady' = c.chatReady

\* ------------------------------------------------------------------- calls
\* op          "login" | "init" | "send" | "startNew" | "restartStart"
\* token       session_token of the request body
\* message     message of the request body (send)
\* cancelled   the variable `cancelled` of the init effect's closure
\* unmounted   the component that issued the call has been unmounted
\* pre, id     bookkeeping: transcript when the send was accepted, its id
Call(op, token, message, pre, id) ==
  [op |-> op, token |-> token, message |-> message, cancelled |-> FALSE,
   unmounted |-> FALSE, pre |-> pre, id |-> id]

Live(c) == ~c.unmounted /\ ~c.cancelled
LiveCalls(op) == {c \in calls : c.op = op /\ Live(c)}

\* The event that produced a state: the handler or continuation that ran,
\* and which of its paths it took.
Event(op, path) == [op |-> op, path |-> path]

\* the path a continuation takes on response r to call c
Path(c, r) ==
  IF c.unmounted \/ c.cancelled THEN "stale"
  ELSE IF ~r.ok THEN "transport failure"
  ELSE IF TruthyStr(r.error) THEN "application error"
  ELSE "ok"

\* -------------------------------------------------------- render conditions
\* variant: the input is not disabled by the end of the conversation
InputDisabledWhileBusy == loading \/ ~chatReady

InputDisabled == loading \/ conversationEnded \/ ~chatReady
SendDisabled == loading \/ conversationEnded \/ ~chatReady \/ Trim(input) = <<>>
RestartShown == conversationEnded
\* variant: the restart button is never disabled
RestartDisabledNever == FALSE
RestartDisabled == loading
ChatShown == session # Null
PlaceholderText ==
  IF ~chatReady THEN "Initializing..."
  ELSE IF conversationEnded THEN "Conversation ended"
  ELSE "Type your message... (Enter to send)"

\* -------------------------------------------------------------------- Init
Init ==
  /\ session = Null
  /\ storage = Null
  /\ loginError = ""
  /\ loginLoading = FALSE
  /\ messages = <<>>
  /\ input = <<>>
  /\ loading = TRUE
  /\ conversationEnded = FALSE
  /\ error = ""
  /\ chatReady = FALSE
  /\ calls = {}
  /\ sent = 0
  /\ okIds = {}
  /\ acked = <<>>
  /\ last = Event("boot", "")

\* ------------------------------------------------------- App and LoginPage
\* variant: only the token is stored
StringifyTokenOnly(data) == <<"session_token", data.session_token>>

\* JSON.stringify({ session_token, builder_name })
Stringify(data) ==
  <<"session_token", data.session_token, "builder_name", data.builder_name>>

\* LoginPage.handleSubmit up to the fetch
LoginSubmit ==
  /\ session = Null
  /\ ~loginLoading
  /\ loginError' = ""
  /\ loginLoading' = TRUE
  /\ LET c == Call("login", "", <<>>, <<>>, 0) IN
       /\ calls' = calls \cup {c}
       /\ last' = Event("LoginSubmit", "")
  /\ UNCHANGED <<session, storage, ctl, sent, okIds, acked>>

\* App.handleLogin, followed by the first render of ChatPage and its effect
HandleLogin(c, r, data) ==
  LET i == Call("init", data.session_token, <<>>, <<>>, 0) IN
  /\ storage' = Some(Stringify(data))
  /\ session' = Some(data)
  /\ loginError' = ""
  /\ loginLoading' = FALSE
  /\ SetCtl(InitialCtl)
  /\ acked' = <<>>
  /\ calls' = (calls \ {c}) \cup {i}
  /\ last' = Event("LoginReturns", "ok")

\* LoginPage.handleSubmit after the fetch
LoginReturns(c, r) ==
  /\ c \in calls
  /\ c.op = "login"
  /\ r \in LoginResponses \cup {TransportFailure}
  /\ IF r.ok /\ r.success = Some(TRUE)
     THEN HandleLogin(c, r, r.account[1])
     ELSE /\ loginError' = IF r.ok THEN OrStr(r.error, "Login failed")
                           ELSE "Network error. Is the backend running on port 8000?"
          /\ loginLoading' = FALSE
          /\ calls' = calls \ {c}
          /\ last' = Event("LoginReturns", IF r.ok THEN "application error"
                                                ELSE "transport failure")
          /\ UNCHANGED <<session, storage, ctl, acked>>
  /\ UNCHANGED <<sent, okIds>>

\* variant: the requests of an unmounted page still reach its state
UnmountKeepsSetters(c) ==
  [c EXCEPT !.cancelled = IF c.op = "init" THEN TRUE ELSE @,
            !.token = "", !.message = <<>>, !.pre = <<>>, !.id = 0]

\* Unmounting ChatPage: the effect's cleanup sets `cancelled`, and the
\* setters of the unmounted component no longer change anything (the
\* bookkeeping of its requests is dropped with it).
Unmount(c) ==
  [c EXCEPT !.unmounted = TRUE,
            !.cancelled = IF c.op = "init" THEN TRUE ELSE @,
            !.token = "", !.message = <<>>, !.pre = <<>>, !.id = 0]

\* App.handleLogout
Logout ==
  /\ session # Null
  /\ Cardinality(calls) <= MaxStale
  /\ storage' = Null
  /\ session' = Null
  /\ loginError' = ""
  /\ loginLoading' = FALSE
  /\ SetCtl(InitialCtl)
  /\ calls' = {Unmount(c) : c \in calls}
  /\ sent' = 0
  /\ okIds' = {}
  /\ acked' = <<>>
  /\ last' = Event("Logout", "")

\* The session App starts with: useState(null)
InitialSession(stored) == Null

\* Page reload: the script starts again, only localStorage survives.
Reload ==
  /\ session' = InitialSession(storage)
  /\ loginError' = ""
  /\ loginLoading' = FALSE
  /\ SetCtl(InitialCtl)
  /\ calls' = {}
  /\ sent' = 0
  /\ okIds' = {}
  /\ acked' = <<>>
  /\ last' = Event("Reload", "")
  /\ UNCHANGED storage

\* ---------------------------------------------------------------- ChatPage
Token == session[1].session_token

\* Superseded start requests of the mounted controller.  They are all alike
\* (same request, `cancelled` true); id counts them, and the one with the
\* highest id stands for whichever is answered next.
Superseded == {c \in calls : c.op = "init" /\ c.cancelled /\ ~c.unmounted}

\* The init effect is cleaned up and run again while the component stays
\* mounted (re-mount in quick succession): the old closure's `cancelled`
\* becomes true and a new start request is issued.
Remount ==
  /\ session # Null
  /\ LiveCalls("init") # {}
  /\ Cardinality(Superseded) < MaxRemounts
  /\ LET i == Call("init", Token, <<>>, <<>>, 0)
         n == Cardinality(Superseded) + 1
     IN
       /\ calls' = {IF c \in LiveCalls("init")
                    THEN [c EXCEPT !.cancelled = TRUE, !.id = n] ELSE c : c \in calls}
                   \cup {i}
       /\ last' = Event("Remount", "")
  /\ UNCHANGED <<session, storage, loginError, loginLoading, ctl, sent, okIds, acked>>

\* variant: init does not look at `cancelled`
CancelledNever(c) == FALSE

\* `cancelled` as init reads it after its awaits
Cancelled(c) == c.cancelled

\* init: the try block after the awaits
InitApply(s, data) ==
  [s EXCEPT !.messages = OrEmptyArray(data.chat),
            !.conversationEnded = OrFalse(data.conversation_ended),
            !.chatReady = TRUE]
\* variant: the catch block records the error only
InitCatchNotReady(s) == [s EXCEPT !.error = "Failed to initialize chat"]

\* init: catch
InitCatch(s) ==
  [s EXCEPT !.error = "Failed to initialize chat", !.chatReady = TRUE]
\* init: finally
InitFinally(s) == [s EXCEPT !.loading = FALSE]

\* init() after its awaits
InitReturns(c, r) ==
  /\ c \in calls
  /\ c.op = "init"
  /\ c \in Superseded => c.id = Cardinality(Superseded)
  /\ r \in StartResponses \cup {TransportFailure}
  /\ calls' = calls \ {c}
  /\ SetCtl(IF Cancelled(c) THEN Ctl
            ELSE InitFinally(IF r.ok THEN InitApply(Ctl, r) ELSE InitCatch(Ctl)))
  /\ acked' = IF Cancelled(c) \/ ~r.ok THEN acked ELSE OrEmptyArray(r.chat)
  /\ last' = Event("InitReturns", Path(c, r))
  /\ UNCHANGED <<session, storage, loginError, loginLoading, sent, okIds>>

\* onChange of the message input
Type(t) ==
  /\ session # Null
  /\ ~InputDisabled
  /\ t \in Texts
  /\ t # input
  /\ input' = t
  /\ last' = Event("Type", "")
  /\ UNCHANGED <<session, storage, loginError, loginLoading, messages, loading,
                 conversationEnded, error, chatReady, calls, sent, okIds, acked>>

\* variant: `!text` in place of `!text.trim()`
SendGuardNoTrim(text) == text = <<>> \/ loading \/ conversationEnded \/ ~chatReady

\* the guard at the top of sendMessage
SendGuard(text) == Trim(text) = <<>> \/ loading \/ conversationEnded \/ ~chatReady

\* variant: the error of an earlier attempt stays
SendEntryKeepsError(s, userMsg, id) ==
  [s EXCEPT !.input = <<>>,
            !.messages = Append(@, UserTurn(userMsg, id)),
            !.loading = TRUE]

\* sendMessage: the setters before the fetch
SendEntry(s, userMsg, id) ==
  [s EXCEPT !.input = <<>>,
            !.messages = Append(@, UserTurn(userMsg, id)),
            !.loading = TRUE,
            !.error = ""]

\* the body of the sendMessage request
SendRequest(userMsg, id) == Call("send", Token, userMsg, messages, id)

\* sendMessage(text) up to the fetch
SendMessage(text, via) ==
  IF SendGuard(text)
  THEN /\ last' = Event(via, "ignored")
       /\ UNCHANGED <<ctl, calls, sent>>
  ELSE LET userMsg == Trim(text)
           id == sent + 1
       IN /\ sent < MaxSends
          /\ SetCtl(SendEntry(Ctl, userMsg, id))
          /\ calls' = calls \cup {SendRequest(userMsg, id)}
          /\ sent' = id
          /\ last' = Event(via, "accepted")

\* onClick of the send button.  The handler is modelled in every state of
\* the mounted page: the disabled attribute only keeps the browser from
\* delivering the event, the guard of sendMessage is what decides.
ClickSend ==
  /\ session # Null
  /\ SendMessage(input, "ClickSend")
  /\ UNCHANGED <<session, storage, loginError, loginLoading, okIds, acked>>

\* handleKeyDown
Keys == {"Enter", "a"}
SubmitKey(key, shiftKey) == key = "Enter" /\ ~shiftKey
HandleKeyDown(key, shiftKey) ==
  /\ session # Null
  /\ key \in Keys
  /\ shiftKey \in BOOLEAN
  /\ IF SubmitKey(key, shiftKey)
     THEN SendMessage(input, "KeyEnter")
     ELSE /\ last' = Event("KeyOther", "")
          /\ UNCHANGED <<ctl, calls, sent>>
  /\ UNCHANGED <<session, storage, loginError, loginLoading, okIds, acked>>

\* variant: a fixed message in place of the backend's
SendAppErrorGeneric(s, data) ==
  [s EXCEPT !.error = "Failed to send message. Is the backend running?",
            !.messages = SliceDropLast(@)]

\* sendMessage: if (data.error) { ... return }
SendAppError(s, data) ==
  [s EXCEPT !.error = data.error[1], !.messages = SliceDropLast(@)]
\* variant: the returned chat is appended to the transcript
SendApplyAppend(s, data) ==
  [s EXCEPT !.messages = @ \o OrEmptyArray(data.chat),
            !.conversationEnded = OrFalse(data.conversation_ended)]

\* sendMessage: the rest of the try block
SendApply(s, data) ==
  LET chat == OrEmptyArray(data.chat) IN
  [s EXCEPT !.messages = IF Len(chat) > 0 THEN chat ELSE @,
            !.conversationEnded = OrFalse(data.conversation_ended)]
\* sendMessage: catch
SendCatch(s) ==
  [s EXCEPT !.error = "Failed to send message. Is the backend running?",
            !.messages = SliceDropLast(@)]
\* sendMessage: finally
SendFinally(s) == [s EXCEPT !.loading = FALSE]

\* sendMessage after its awaits
SendReturns(c, r) ==
  /\ c \in calls
  /\ c.op = "send"
  /\ r \in SendResponses \cup {TransportFailure}
  /\ calls' = calls \ {c}
  /\ IF c.unmounted
     THEN UNCHANGED <<ctl, okIds, acked>>
     ELSE /\ SetCtl(SendFinally(IF ~r.ok THEN SendCatch(Ctl)
                                ELSE IF TruthyStr(r.error) THEN SendAppError(Ctl, r)
                                ELSE SendApply(Ctl, r)))
          /\ okIds' = IF r.ok /\ ~TruthyStr(r.error)
                      THEN okIds \cup {c.id} ELSE okIds
          /\ acked' = IF r.ok /\ ~TruthyStr(r.error)
                      THEN OrEmptyArray(r.chat) ELSE acked
  /\ last' = Event("SendReturns", Path(c, r))
  /\ UNCHANGED <<session, storage, loginError, loginLoading, sent>>

\* startNewChat: the setters before the first fetch
RestartEntry(s) == [s EXCEPT !.loading = TRUE, !.error = ""]

\* startNewChat up to the first fetch (the button is rendered when the
\* conversation has ended and is disabled while loading)
StartNewChat ==
  /\ session # Null
  /\ RestartShown
  /\ ~RestartDisabled
  /\ SetCtl(RestartEntry(Ctl))
  /\ calls' = calls \cup {Call("startNew", Token, <<>>, <<>>, 0)}
  /\ last' = Event("StartNewChat", "")
  /\ UNCHANGED <<session, storage, loginError, loginLoading, sent, okIds, acked>>

\* variant: the failure of start-new is swallowed
StartNewProceedsAlways(r) == TRUE

\* `await fetch(start-new)`: a rejected request throws, anything else
\* (whatever its status and body) lets startNewChat go on
StartNewProceeds(r) == r.ok

\* variant: the transcript is kept until start has answered
RestartResetKeepsTranscript(s) ==
  [s EXCEPT !.conversationEnded = FALSE, !.chatReady = FALSE]

\* startNewChat: the setters between the two fetches
RestartReset(s) ==
  [s EXCEPT !.messages = <<>>, !.conversationEnded = FALSE, !.chatReady = FALSE]
\* variant: a restart never comes back ended
RestartApplyNotEnded(s, data) ==
  [s EXCEPT !.messages = OrEmptyArray(data.chat),
            !.conversationEnded = FALSE,
            !.chatReady = TRUE]

\* startNewChat: the try block after the awaits of start
RestartApply(s, data) ==
  [s EXCEPT !.messages = OrEmptyArray(data.chat),
            !.conversationEnded = OrFalse(data.conversation_ended),
            !.chatReady = TRUE]
\* variants: the catch block records the error only; the catch block also
\* resets the end of the conversation
RestartCatchNotReady(s) == [s EXCEPT !.error = "Failed to reset chat"]
RestartCatchResetsEnded(s) ==
  [s EXCEPT !.error = "Failed to reset chat", !.chatReady = TRUE,
            !.conversationEnded = FALSE]

\* startNewChat: catch
RestartCatch(s) == [s EXCEPT !.error = "Failed to reset chat", !.chatReady = TRUE]
\* startNewChat: finally
RestartFinally(s) == [s EXCEPT !.loading = FALSE]

\* startNewChat after the await of start-new
StartNewReturns(c, r) ==
  /\ c \in calls
  /\ c.op = "startNew"
  /\ r \in {Acknowledged, TransportFailure}
  /\ calls' = (calls \ {c}) \cup
              (IF StartNewProceeds(r) THEN {[c EXCEPT !.op = "restartStart"]} ELSE {})
  /\ IF c.unmounted
     THEN UNCHANGED ctl
     ELSE SetCtl(IF StartNewProceeds(r) THEN RestartReset(Ctl)
                 ELSE RestartFinally(RestartCatch(Ctl)))
  /\ last' = Event("StartNewReturns", Path(c, r))
  /\ UNCHANGED <<session, storage, loginError, loginLoading, sent, okIds, acked>>

\* startNewChat after the awaits of start
RestartStartReturns(c, r) ==
  /\ c \in calls
  /\ c.op = "restartStart"
  /\ r \in StartResponses \cup {TransportFailure}
  /\ calls' = calls \ {c}
  /\ IF c.unmounted
     THEN UNCHANGED ctl
     ELSE SetCtl(RestartFinally(IF r.ok THEN RestartApply(Ctl, r)
                                ELSE RestartCatch(Ctl)))
  /\ acked' = IF c.unmounted \/ ~r.ok THEN acked ELSE OrEmptyArray(r.chat)
  /\ last' = Event("RestartStartReturns", Path(c, r))
  /\ UNCHANGED <<session, storage, loginError, loginLoading, sent, okIds>>

\* ------------------------------------------------------------ specification
Next ==
  \/ LoginSubmit
  \/ \E c \in calls, r \in LoginResponses \cup {TransportFailure} : LoginReturns(c, r)
  \/ Logout
  \/ Reload
  \/ Remount
  \/ \E c \in calls, r \in StartResponses \cup {TransportFailure} : InitReturns(c, r)
  \/ \E t \in Texts : Type(t)
  \/ ClickSend
  \/ \E key \in Keys, shiftKey \in BOOLEAN : HandleKeyDown(key, shiftKey)
  \/ \E c \in calls, r \in SendResponses \cup {TransportFailure} : SendReturns(c, r)
  \/ StartNewChat
  \/ \E c \in calls, r \in {Acknowledged, TransportFailure} : StartNewReturns(c, r)
  \/ \E c \in calls, r \in StartResponses \cup {TransportFailure} : RestartStartReturns(c, r)

Spec == Init /\ [][Next]_vars

\* One session from login on, without logout and without a reload.
NextInSession ==
  \/ LoginSubmit
  \/ \E c \in calls, r \in LoginResponses \cup {TransportFailure} : LoginReturns(c, r)
  \/ Remount
  \/ \E c \in calls, r \in StartResponses \cup {TransportFailure} : InitReturns(c, r)
  \/ \E t \in Texts : Type(t)
  \/ ClickSend
  \/ \E key \in Keys, shiftKey \in BOOLEAN : HandleKeyDown(key, shiftKey)
  \/ \E c \in calls, r \in SendResponses \cup {TransportFailure} : SendReturns(c, r)
  \/ StartNewChat
  \/ \E c \in calls, r \in {Acknowledged, TransportFailure} : StartNewReturns(c, r)
  \/ \E c \in calls, r \in StartResponses \cup {TransportFailure} : RestartStartReturns(c, r)

\* Every request of the controller is answered in the end (fetch resolves
\* or rejects, and the continuation after the await then runs).
ResponsesArrive ==
  /\ WF_vars(\E c \in LiveCalls("init"), r \in StartResponses \cup {TransportFailure} :
               InitReturns(c, r))
  /\ WF_vars(\E c \in calls, r \in SendResponses \cup {TransportFailure} :
               SendReturns(c, r))
  /\ WF_vars(\E c \in calls, r \in {Acknowledged, TransportFailure} :
               StartNewReturns(c, r))
  /\ WF_vars(\E c \in calls, r \in StartResponses \cup {TransportFailure} :
               RestartStartReturns(c, r))

SpecInSession == Init /\ [][NextInSession]_vars /\ ResponsesArrive

TypeOK ==
  /\ session \in {Null} \cup {Some(a) : a \in Accounts}
  /\ storage \in {Null} \cup {Some(Stringify(a)) : a \in Accounts}
  /\ loginLoading \in BOOLEAN
  /\ loading \in BOOLEAN
  /\ conversationEnded \in BOOLEAN
  /\ chatReady \in BOOLEAN
  /\ input \in Texts
  /\ sent \in 0..MaxSends
  /\ acked \in Snapshots

\* =================================================================== claims
\* What a response means to the controller, as the specification words it.
ChatOf(r) == IF r.chat = Null THEN <<>> ELSE r.chat[1]
EndedOf(r) == IF r.conversation_ended = Null THEN FALSE ELSE r.conversation_ended[1]
\* an application-level error: a response with a non-empty error string
AppError(r) == r.ok /\ r.error # Null /\ r.error[1] # ""
SendFailed(r) == ~r.ok \/ AppError(r)
\* the transcript while send c is in flight
Optimistic(c) ==
  Append(c.pre, [role |-> "user", content |-> c.message, id |-> c.id])
\* positions of locally appended turns the backend has not accepted
Unacked == {i \in 1..Len(messages) :
              messages[i].id # 0 /\ messages[i].id \notin okIds}
SendInFlight == LiveCalls("send") # {}
AnySendAnswer == SendResponses \cup {TransportFailure}
AnyStartAnswer == StartResponses \cup {TransportFailure}
\* the step is the continuation op of a request of the mounted controller
\* (of a start request that has not been superseded)
Answered(op) == last'.op = op /\ last'.path # "stale"
\* the request a step has answered
AnsweredCalls == calls \ calls'

\* C1 (rollback): a failed send (transport failure or non-empty error
\* field) settles with the transcript exactly as it was just before the
\* send was accepted; a succeeded send with an empty or absent snapshot
\* settles with that transcript plus its one user turn, one with a
\* non-empty snapshot with the snapshot; and whenever no send is in flight
\* the transcript holds no locally appended turn of a send that did not
\* succeed.
C1_NoFailedTurn ==
  ~SendInFlight => \A i \in 1..Len(messages) :
                      messages[i].id = 0 \/ messages[i].id \in okIds
C1_Step ==
  Answered("SendReturns") =>
    \A c \in AnsweredCalls, r \in AnySendAnswer :
      SendReturns(c, r) =>
        messages' = IF SendFailed(r) THEN c.pre
                    ELSE IF ChatOf(r) # <<>> THEN ChatOf(r)
                    ELSE Optimistic(c)
C1_Rollback == C1_NoFailedTurn /\ [][C1_NoFailedTurn' /\ C1_Step]_vars
\* a send has just failed while the turn of an earlier, succeeded send stays
C1_Witness ==
  /\ last.op = "SendReturns"
  /\ last.path \in {"application error", "transport failure"}
  /\ sent = 2
  /\ \E i \in 1..Len(messages) : messages[i].id \in okIds

\* C2 (at most one turn in flight): at most one send is in flight; while
\* one is, busy is true and the transcript is the transcript at acceptance
\* plus exactly one unacknowledged user turn, at the end; when none is, the
\* transcript holds no unacknowledged turn.
C2_AtMostOneInFlight ==
  /\ Cardinality(LiveCalls("send")) <= 1
  /\ \A c \in LiveCalls("send") :
       /\ loading
       /\ messages = Optimistic(c)
       /\ Unacked = {Len(messages)}
  /\ ~SendInFlight => Unacked = {}
\* the retry: a second send is in flight after the first one failed
C2_Witness ==
  /\ SendInFlight
  /\ last.path = "accepted"
  /\ sent = 2
  /\ okIds = {}
  /\ Len(messages) > 1

\* a send intent: the send button or Enter without Shift
SendIntent ==
  /\ last'.op \in {"ClickSend", "KeyEnter"}
  /\ ClickSend \/ HandleKeyDown("Enter", FALSE)
\* a restart has issued start-new and its start has not settled
RestartInProgress == LiveCalls("startNew") # {} \/ LiveCalls("restartStart") # {}

\* C3 (terminal gating): while ended is true, and while a restart is in
\* progress, a send intent neither changes the transcript nor issues a
\* request; while ended is true the input is disabled and the restart
\* control is shown, and the restart control is shown only when ended is
\* true.
C3_Controls ==
  /\ conversationEnded => InputDisabled /\ RestartShown
  /\ RestartShown => conversationEnded
C3_Gate ==
  (SendIntent /\ (conversationEnded \/ RestartInProgress))
    => (messages' = messages /\ calls' = calls)
C3_TerminalGating == C3_Controls /\ [][C3_Controls' /\ C3_Gate]_vars
\* a send intent has arrived in an ended conversation
C3_Witness ==
  /\ conversationEnded
  /\ last.op = "ClickSend"
  /\ last.path = "ignored"
  /\ messages # <<>>

\* C4 as stated: every restart that has settled leaves ended=false,
\* ready=true, busy=false and the transcript returned by start.
C4_Original ==
  [][(Answered("RestartStartReturns") \/ Answered("StartNewReturns")) =>
     \A c \in AnsweredCalls, r \in AnyStartAnswer :
       (RestartStartReturns(c, r) \/ (StartNewReturns(c, r) /\ ~r.ok))
         => /\ ~conversationEnded'
            /\ chatReady'
            /\ ~loading'
            /\ messages' = ChatOf(r)]_vars
\* C4 (restart round-trip, amended): a restart whose start-new request
\* resolves settles, when its start request is answered, with ready=true
\* and busy=false; on a response the transcript is the returned chat (empty
\* when absent) and ended is the response's conversation_ended (false when
\* absent); on a transport failure the transcript is empty and ended false.
C4_RestartRoundTrip ==
  [][Answered("RestartStartReturns") =>
     \A c \in AnsweredCalls, r \in AnyStartAnswer :
       RestartStartReturns(c, r)
         => /\ chatReady'
            /\ ~loading'
            /\ messages' = ChatOf(r)
            /\ conversationEnded' = (r.ok /\ EndedOf(r))]_vars
\* a restart has come back with a conversation that is already ended
C4_Witness ==
  /\ last.op = "RestartStartReturns"
  /\ last.path = "ok"
  /\ conversationEnded
  /\ chatReady
  /\ ~loading
  /\ messages # <<>>

\* C5 as stated: a transport failure of start-new still resets the
\* transcript and ended and issues the start request.
C5_Original ==
  [][Answered("StartNewReturns") =>
     \A c \in AnsweredCalls :
       StartNewReturns(c, TransportFailure)
         => /\ messages' = <<>>
            /\ ~conversationEnded'
            /\ \E d \in calls' \ calls : d.op = "restartStart"]_vars
\* C5 (start-new failure, amended): when start-new fails at the transport
\* level the restart stops: the error is recorded, ready=true, busy=false,
\* transcript and ended stay as they were and no start request is issued;
\* when start-new resolves the transcript is emptied, ended and ready are
\* reset, busy stays true and exactly one start request is issued.
C5_StartNewFailureStops ==
  [][Answered("StartNewReturns") =>
     \A c \in AnsweredCalls, r \in {Acknowledged, TransportFailure} :
       StartNewReturns(c, r)
         => IF r.ok
            THEN /\ messages' = <<>>
                 /\ ~conversationEnded'
                 /\ ~chatReady'
                 /\ loading'
                 /\ \E d \in calls' \ calls :
                      /\ d.op = "restartStart"
                      /\ d.token = Token
                      /\ calls' = (calls \ {c}) \cup {d}
            ELSE /\ UNCHANGED <<messages, conversationEnded>>
                 /\ error' = "Failed to reset chat"
                 /\ chatReady'
                 /\ ~loading'
                 /\ calls' = calls \ {c}]_vars
\* a restart has stopped at the failure of start-new, still ended
C5_Witness ==
  /\ last.op = "StartNewReturns"
  /\ last.path = "transport failure"
  /\ conversationEnded
  /\ error = "Failed to reset chat"
  /\ RestartShown
  /\ ~RestartInProgress

\* C6 (idempotent initialization): at most one start request of the
\* controller is not superseded, and until it is answered nothing has been
\* applied; the answer to a superseded request changes no controller state;
\* the answer to the latest one is applied and leaves no start outstanding
\* that could be applied after it.
C6_OneLive ==
  /\ Cardinality(LiveCalls("init")) <= 1
  /\ LiveCalls("init") # {} => Ctl = InitialCtl
C6_Step ==
  last'.op = "InitReturns" =>
    \A c \in AnsweredCalls :
      IF c.cancelled
      THEN UNCHANGED ctl
      ELSE /\ \A r \in StartResponses :
                InitReturns(c, r) =>
                  (messages' = ChatOf(r) /\ conversationEnded' = EndedOf(r))
           /\ chatReady'
           /\ ~loading'
           /\ \A d \in calls' : d.op = "init" => d.cancelled
C6_IdempotentInit == C6_OneLive /\ [][C6_OneLive' /\ C6_Step]_vars
\* the latest start has been applied while a superseded one is outstanding
C6_Witness ==
  /\ Superseded # {}
  /\ last.op = "InitReturns"
  /\ last.path = "ok"
  /\ chatReady
  /\ messages # <<>>

\* C7 (session persistence): after a reload that finds the durable key, the
\* application holds the saved session and shows the conversation.
C7_SessionSurvivesReload ==
  (last.op = "Reload" /\ storage # Null)
    => (session # Null /\ Stringify(session[1]) = storage[1] /\ ChatShown)

\* C8 (guarded send): a send intent arriving while ready=false, busy=true,
\* ended=true or with a draft that is empty after trimming changes neither
\* the controller state (transcript, ended, ready, busy, error, draft) nor
\* the session, and issues no request.
C8_Blocked == ~chatReady \/ loading \/ conversationEnded \/ Trim(input) = <<>>
C8_GuardedSendNoOp ==
  [][(SendIntent /\ C8_Blocked)
       => UNCHANGED <<ctl, calls, sent, session, storage>>]_vars
\* Enter has been pressed while a send was in flight
C8_Witness ==
  /\ last.op = "KeyEnter"
  /\ last.path = "ignored"
  /\ SendInFlight
  /\ loading

\* C9 (initialization failure): a transport failure of the start request of
\* an initialization that has not been superseded settles with ready=true,
\* busy=false, an empty transcript, ended=false and a non-empty error.
C9_InitFailureRecovered ==
  [][Answered("InitReturns") =>
     \A c \in AnsweredCalls :
       InitReturns(c, TransportFailure)
         => /\ chatReady'
            /\ ~loading'
            /\ messages' = <<>>
            /\ ~conversationEnded'
            /\ error' # ""]_vars
C9_Witness ==
  /\ last.op = "InitReturns"
  /\ last.path = "transport failure"
  /\ chatReady
  /\ ~loading
  /\ error = "Failed to initialize chat"

\* C10 (no silent failure): a transport failure of start during
\* initialization, an application error or transport failure of
\* sendMessage, and a transport failure of start-new or of start during a
\* restart each settle with a non-empty error and busy=false; for an
\* application error the message is the backend's error string; a failed
\* send leaves ended as it was, which is false.
C10_Step ==
  /\ Answered("InitReturns") =>
     \A c \in AnsweredCalls :
       InitReturns(c, TransportFailure) => (error' # "" /\ ~loading')
  /\ Answered("SendReturns") =>
     \A c \in AnsweredCalls, r \in AnySendAnswer :
       (SendReturns(c, r) /\ SendFailed(r))
         => /\ error' # ""
            /\ AppError(r) => error' = r.error[1]
            /\ ~loading'
            /\ conversationEnded' = conversationEnded
            /\ ~conversationEnded'
  /\ (Answered("StartNewReturns") \/ Answered("RestartStartReturns")) =>
     \A c \in AnsweredCalls :
       (StartNewReturns(c, TransportFailure) \/ RestartStartReturns(c, TransportFailure))
         => (error' # "" /\ ~loading')
C10_NoSilentFailure == [][C10_Step]_vars
\* the backend has rejected a turn
C10_Witness ==
  /\ last.op = "SendReturns"
  /\ last.path = "application error"
  /\ error = "rate limited"
  /\ ~loading

\* C11 (teardown ignores late responses): a logout leaves no session, no
\* durable key and a controller state with nothing of the old one
\* (transcript empty, ended, ready and error reset, busy as at start);
\* while logged out every request still outstanding belongs to a page that
\* is gone and the controller state stays discarded; the answer to a
\* request of a page that is gone changes no controller, session or login
\* state, whether it arrives before or after a later login; and the
\* controller of a later login begins with an empty transcript, ended=false.
C11_LoggedOut ==
  session = Null =>
    /\ Ctl = InitialCtl
    /\ \A c \in calls : c.op # "login" => c.unmounted
C11_Step ==
  /\ last'.op = "Logout" =>
       /\ session' = Null
       /\ storage' = Null
       /\ messages' = <<>> /\ ~conversationEnded' /\ ~chatReady' /\ error' = ""
       /\ loading'
  /\ last'.op \in {"InitReturns", "SendReturns", "StartNewReturns",
                   "RestartStartReturns"} =>
       \A c \in AnsweredCalls :
         c.unmounted =>
           UNCHANGED <<ctl, session, storage, loginError, loginLoading, sent>>
  /\ last'.op = "LoginReturns" /\ session' # Null =>
       messages' = <<>> /\ ~conversationEnded'
C11_TeardownIgnoresLate == C11_LoggedOut /\ [][C11_LoggedOut' /\ C11_Step]_vars
\* the answer to a send of the previous session arrives after a new login
C11_Witness ==
  /\ last.op = "SendReturns"
  /\ last.path = "stale"
  /\ session # Null
  /\ LiveCalls("init") # {}
  /\ Ctl = InitialCtl

\* C12 (session lifecycle): the session changes to a present value only in
\* the continuation of a login answered success=true, which stores token
\* and name of that answer under the key and makes the same pair the
\* session; a login answered otherwise, or rejected, leaves the session
\* absent, stores nothing and sets a non-empty error; logout removes key
\* and session; the key is written by nothing else; and every step other
\* than the start of a new process keeps "session present iff key present".
C12_Both == (session # Null) <=> (storage # Null)
C12_Step ==
  /\ (last'.op = "LoginReturns" /\ last'.path = "ok") =>
       \E a \in Accounts :
         /\ session' = Some(a)
         /\ storage' = Some(<<"session_token", a.session_token,
                              "builder_name", a.builder_name>>)
         /\ \E c \in AnsweredCalls, r \in LoginResponses :
              r.success = Some(TRUE) /\ r.account = Some(a) /\ LoginReturns(c, r)
  /\ (last'.op = "LoginReturns" /\ last'.path # "ok") =>
       /\ session' = Null
       /\ storage' = storage
       /\ loginError' # ""
  /\ last'.op = "Logout" => (session' = Null /\ storage' = Null)
  /\ (session' # session /\ session' # Null) =>
       (last'.op = "LoginReturns" /\ last'.path = "ok")
  /\ storage' # storage =>
       (last'.op = "Logout" \/ (last'.op = "LoginReturns" /\ last'.path = "ok"))
  /\ (last'.op # "Reload" /\ C12_Both) => C12_Both'
C12_SessionLifecycle == C12_Both /\ [][C12_Step]_vars
\* a second login, after a logout, has made another account the session
C12_Witness ==
  /\ last.op = "LoginReturns"
  /\ last.path = "ok"
  /\ session # Null
  /\ storage = Some(<<"session_token", Token, "builder_name", session[1].builder_name>>)
  /\ \E c \in calls : c.unmounted

\* C13 (mutual exclusion of operations): at most one request of the mounted
\* controller is outstanding among its initialization (the start request
\* that has not been superseded), a send and a restart (start-new or the
\* start that follows), and busy is true while one is; a restart begins
\* only when busy=false and no restart is in progress; and while a restart
\* is in progress a send intent is ignored.
C13_OneOperation ==
  /\ Cardinality({c \in calls : Live(c) /\ c.op # "login"}) <= 1
  /\ (\E c \in calls : Live(c) /\ c.op # "login") => loading
C13_Step ==
  /\ last'.op = "StartNewChat" =>
       /\ ~loading
       /\ ~RestartInProgress
       /\ \E d \in calls' \ calls : d.op = "startNew" /\ calls' = calls \cup {d}
  /\ (SendIntent /\ RestartInProgress) =>
       (last'.path = "ignored" /\ calls' = calls /\ messages' = messages)
C13_MutualExclusion == C13_OneOperation /\ [][C13_OneOperation' /\ C13_Step]_vars
\* a click on send while the start request of a restart is outstanding
C13_Witness ==
  /\ LiveCalls("restartStart") # {}
  /\ last.op = "ClickSend"
  /\ last.path = "ignored"
  /\ loading
  /\ ~chatReady

\* C14 (successful send): when the answer to a send carries no application
\* error, a non-empty chat becomes the transcript, an empty or absent chat
\* leaves the transcript as it was while the send was in flight (the
\* transcript at acceptance plus the user turn), ended becomes the
\* response's conversation_ended (false when absent), busy becomes false
\* and the error, empty since the send was accepted, stays empty.
C14_Step ==
  Answered("SendReturns") =>
    \A c \in AnsweredCalls, r \in SendResponses :
      (SendReturns(c, r) /\ ~AppError(r)) =>
        /\ error = ""
        /\ error' = ""
        /\ ~loading'
        /\ conversationEnded' = EndedOf(r)
        /\ IF ChatOf(r) # <<>>
           THEN messages' = ChatOf(r)
           ELSE messages' = messages /\ messages = Optimistic(c)
C14_SuccessfulSend == [][C14_Step]_vars
\* a send has come back with a transcript and the end of the conversation
C14_Witness ==
  /\ last.op = "SendReturns"
  /\ last.path = "ok"
  /\ messages = <<BackendUser, BackendAsst>>
  /\ conversationEnded
  /\ ~loading
  /\ error = ""
  /\ okIds # {}

\* C15 (accepted send entry): a send intent with ready=true, busy=false,
\* ended=false and a draft that is not empty after trimming appends one
\* user turn with the trimmed draft to the end of the transcript, leaving
\* the turns before it as they were, clears the error, sets busy=true and
\* adds exactly one request: a send with the trimmed draft and the token of
\* the session.
C15_Step ==
  (SendIntent /\ ~C8_Blocked) =>
    /\ last'.path = "accepted"
    /\ Len(messages') = Len(messages) + 1
    /\ SubSeq(messages', 1, Len(messages)) = messages
    /\ messages'[Len(messages')].role = "user"
    /\ messages'[Len(messages')].content = Trim(input)
    /\ error' = ""
    /\ loading'
    /\ UNCHANGED <<conversationEnded, chatReady, session, storage>>
    /\ \E d \in calls' \ calls :
         /\ calls' = calls \cup {d}
         /\ d.op = "send"
         /\ d.message = Trim(input)
         /\ d.token = session[1].session_token
C15_AcceptedSendEntry == [][C15_Step]_vars
\* Enter has sent the retry of a message whose first attempt had failed
C15_Witness ==
  /\ last.op = "KeyEnter"
  /\ last.path = "accepted"
  /\ sent = 2
  /\ okIds = {}
  /\ error = ""
  /\ loading
  /\ messages # <<>>
  /\ messages[Len(messages)].content = <<"a">>

\* role and content of the turns of a transcript
Rendered(seq) == [i \in 1..Len(seq) |-> [role |-> seq[i].role, content |-> seq[i].content]]

\* C16 as stated: whenever no send is in flight the transcript is the chat
\* of the last answer of start or sendMessage the controller applied, and
\* while one is in flight it is that chat plus the one optimistic user turn.
C16_Original ==
  /\ ~SendInFlight => Rendered(messages) = Rendered(acked)
  /\ \A c \in LiveCalls("send") :
       Rendered(messages) = Rendered(Append(acked, UserTurn(c.message, c.id)))
\* C16 (provenance of the transcript, amended): within one controller the
\* transcript changes only as follows.  An applied answer of start (init
\* or restart) makes it the returned chat (empty when absent); an accepted
\* send appends one user turn; a failed send restores the transcript of
\* acceptance; a succeeded send with a non-empty chat makes it that chat,
\* one with an empty or absent chat keeps the transcript with its user
\* turn; a restart empties it when start-new has resolved, and it stays
\* empty when start then fails.  So with no send in flight the transcript
\* differs from the chat last acknowledged only by being empty or by
\* holding user turns of succeeded sends.
C16_Differs ==
  (~SendInFlight /\ Rendered(messages) # Rendered(acked)) =>
    \/ messages = <<>>
    \/ \E i \in 1..Len(messages) : messages[i].id \in okIds
C16_Step ==
  /\ (Answered("InitReturns") \/ Answered("RestartStartReturns")) =>
       \A c \in AnsweredCalls :
         /\ \A r \in StartResponses :
              (InitReturns(c, r) \/ RestartStartReturns(c, r))
                => (messages' = ChatOf(r) /\ acked' = ChatOf(r))
         /\ (InitReturns(c, TransportFailure) \/ RestartStartReturns(c, TransportFailure))
              => (messages = <<>> /\ messages' = <<>> /\ acked' = acked)
  /\ Answered("StartNewReturns") =>
       /\ acked' = acked
       /\ messages' = IF last'.path = "ok" THEN <<>> ELSE messages
  /\ Answered("SendReturns") =>
       \A c \in AnsweredCalls, r \in AnySendAnswer :
         SendReturns(c, r) =>
           IF SendFailed(r) THEN messages' = c.pre /\ acked' = acked
           ELSE IF ChatOf(r) # <<>> THEN messages' = ChatOf(r) /\ acked' = ChatOf(r)
           ELSE messages' = Optimistic(c) /\ acked' = <<>>
  /\ last'.path = "accepted" =>
       (Len(messages') = Len(messages) + 1
          /\ SubSeq(messages', 1, Len(messages)) = messages /\ acked' = acked)
  /\ (\/ last'.path \in {"stale", "ignored"}
      \/ last'.op \in {"Type", "KeyOther", "Remount", "StartNewChat", "LoginSubmit"})
       => (messages' = messages /\ acked' = acked)
C16_TranscriptProvenance == C16_Differs /\ [][C16_Differs' /\ C16_Step]_vars
\* a restart has emptied the transcript and its start request has failed
C16_Witness ==
  /\ last.op = "RestartStartReturns"
  /\ last.path = "transport failure"
  /\ messages = <<>>
  /\ acked # <<>>
  /\ ~SendInFlight
  /\ chatReady

\* C17 (restart after a failed initialization): in the state a failed
\* initialization settles in (ready=true, busy=false, empty transcript,
\* ended=false, the initialization error recorded) the restart control is
\* shown and enabled.
C17_RestartAfterInitError ==
  (/\ session # Null
   /\ last.op = "InitReturns"
   /\ last.path = "transport failure"
   /\ chatReady /\ ~loading /\ messages = <<>> /\ ~conversationEnded
   /\ error = "Failed to initialize chat")
    => (RestartShown /\ ~RestartDisabled)

\* C18 (no stuck loading), for one session without logout in which every
\* request is answered in the end: from every state of the chat page a
\* state with busy=false and ready=true is reached.  (A state with no
\* request outstanding in which busy is true or ready is false would stay
\* as it is and refute this.)
C18_Settled == session # Null /\ ~loading /\ chatReady
C18_NoStuckLoading == (session # Null) ~> C18_Settled
\* a restart has settled after the failure of its start request
C18_Witness ==
  /\ C18_Settled
  /\ last.op = "RestartStartReturns"
  /\ last.path = "transport failure"
  /\ error = "Failed to reset chat"
  /\ {c \in calls : Live(c)} = {}

\* C19 (failed message preserved): when a send fails, its text is still
\* held in the state of the controller afterwards: as the draft, or in a
\* turn of that send in the transcript.
C19_FailedMessagePreserved ==
  [][Answered("SendReturns") =>
     \A c \in AnsweredCalls, r \in AnySendAnswer :
       (SendReturns(c, r) /\ SendFailed(r))
         => \/ Trim(input') = c.message
            \/ \E i \in 1..Len(messages') :
                 messages'[i].id = c.id /\ messages'[i].content = c.message]_vars

\* C20 (ended changes only through the backend and restart): within one
\* controller, ended becomes true only in the continuation of a start
\* request (init or restart) or of a send whose response carries
\* conversation_ended=true and no application error; it becomes false
\* again only when the start-new request of a restart has resolved; the
\* answer to a send, and the failure of start-new, leave a true ended true.
C20_Step ==
  /\ (~conversationEnded /\ conversationEnded') =>
       /\ last'.op \in {"InitReturns", "SendReturns", "RestartStartReturns"}
       /\ last'.path = "ok"
       /\ \E c \in AnsweredCalls, r \in StartResponses \cup SendResponses :
            /\ r.conversation_ended = Some(TRUE)
            /\ ~AppError(r)
            /\ InitReturns(c, r) \/ SendReturns(c, r) \/ RestartStartReturns(c, r)
  /\ (conversationEnded /\ ~conversationEnded'
        /\ last'.op \notin {"Logout", "Reload"}) =>
       /\ last'.op = "StartNewReturns"
       /\ last'.path = "ok"
       /\ \E c \in AnsweredCalls : Live(c) /\ StartNewReturns(c, Acknowledged)
  /\ (conversationEnded /\ last'.op = "SendReturns") => conversationEnded'
  /\ (conversationEnded /\ last'.op = "StartNewReturns" /\ last'.path # "ok")
       => conversationEnded'
C20_EndedOnlyByBackendAndRestart == [][C20_Step]_vars
\* start-new has resolved and the restart has reset ended
C20_Witness ==
  /\ last.op = "StartNewReturns"
  /\ last.path = "ok"
  /\ ~conversationEnded
  /\ ~chatReady
  /\ loading
  /\ LiveCalls("restartStart") # {}

====
